---------------------------- MODULE Spec2Model ----------------------------
(***************************************************************************)
(* Front end of graphql-go: the type-reference parser, the type resolver,  *)
(* the directive / argument parsers, the query-document parser and the     *)
(* two Parse entry points; the literals' Value methods, the by-name Get   *)
(* lookups of the syntax-tree lists and the introspection meta fields.     *)
(*                                                                         *)
(* Source text is a sequence of tokens (the lexer's scanner is not part of *)
(* the sources at hand; its contract is taken from the design document).   *)
(* A location is the index of a token in its source.                       *)
(***************************************************************************)
EXTENDS Integers, Sequences, FiniteSets, TLC

VARIABLES
    mode,     \* which entry point this run exercises
    src,      \* the source text, a sequence of tokens
    pieces,   \* number of pieces the source text was written in
    table,    \* Schema.Types: name -> declared type
    pc,       \* position of the run
    origin,   \* where the reference being resolved came from
    input,    \* the reference tree handed to ResolveType
    todo,     \* ResolveType: the node the innermost call is looking at
    stack,    \* ResolveType: the pending calls (one wrapper each)
    ret,      \* ResolveType: the (Type, *QueryError) being returned;
              \* elsewhere the result of a Get lookup or of Value(vars)
    calls,    \* ResolveType: number of invocations of this run
    text,     \* result of String() on the resolved type
    out       \* result of a Parse entry point / parser under test

vars == <<mode, src, pieces, table, pc, origin, input, todo, stack, ret, calls, text, out>>

-----------------------------------------------------------------------------
(* Bounds *)

MaxSrcLen == 7

MaxChunks == 5

-----------------------------------------------------------------------------
(* Values *)

Nil == [k |-> "nil"]

List(t) == [k |-> "List", of |-> t]

NonNull(t) == [k |-> "NonNull", of |-> t]

TypeName(ident) == [k |-> "TypeName", Name |-> ident.Name, Loc |-> ident.Loc]

\* a pointer to the declared type stored under `key` in Schema.Types
Declared(key) == [k |-> "Declared", key |-> key]

Ident(name, loc) == [Name |-> name, Loc |-> loc]

SeqsUpTo(S, n) == UNION {[1..m -> S] : m \in 0..n}

-----------------------------------------------------------------------------
(* Lexer: tokens, one-token lookahead, consume-with-expectation.           *)

IdentTokens == {"A", "B", "U", "Q", "a", "b", "d", "f", "g", "x", "on",
                "query", "mutation", "subscription", "fragment",
                "user", "id", "name", "friends", "Int", "Frag", "User",
                "type", "scalar", "null", "String"}

IntTokens == {"1"}

NewLexer(s) == [toks |-> s, pos |-> 1]

AtEOF(l) == l.pos > Len(l.toks)

Tok(l) == IF AtEOF(l) THEN "EOF" ELSE l.toks[l.pos]

Peek(l) ==
    IF AtEOF(l) THEN "EOF"
    ELSE IF l.toks[l.pos] \in IdentTokens THEN "Ident"
    ELSE IF l.toks[l.pos] \in IntTokens THEN "Int"
    ELSE l.toks[l.pos]

Location(l) == l.pos

Advance(l) == [l EXCEPT !.pos = @ + 1]

Ok(l, v) == [ok |-> TRUE, l |-> l, v |-> v]

\* a syntax error aborts the parse; it carries the lexer's location
SyntaxError(l, message) ==
    [ok |-> FALSE, l |-> l,
     v |-> [Message |-> <<"syntax error: ">> \o message,
            Rule |-> "",
            Locations |-> <<Location(l)>>]]

Unexpected(l, expecting) ==
    SyntaxError(l, <<"unexpected ", "\"", Tok(l), "\"", ", expecting ", expecting>>)

ConsumeToken(l, expected) ==
    IF Peek(l) = expected THEN Ok(Advance(l), Tok(l))
    ELSE Unexpected(l, expected)

ConsumeIdentWithLoc(l) ==
    IF Peek(l) = "Ident" THEN Ok(Advance(l), Ident(Tok(l), Location(l)))
    ELSE Unexpected(l, "Ident")

ConsumeIdent(l) ==
    IF Peek(l) = "Ident" THEN Ok(Advance(l), Tok(l))
    ELSE Unexpected(l, "Ident")

ConsumeKeyword(l, keyword) ==
    IF Peek(l) = "Ident" /\ Tok(l) = keyword THEN Ok(Advance(l), Tok(l))
    ELSE Unexpected(l, keyword)

-----------------------------------------------------------------------------
(* The parsers below are written statement by statement: each local        *)
(* operator receives the result of one statement and either passes the     *)
(* syntax error on or goes on to the next statement.                       *)

(* Type-reference parser *)

RECURSIVE ParseType(_)
RECURSIVE parseNullType(_)

parseNullType(l) ==
    LET closed(ofType, close) ==
            IF ~close.ok THEN close ELSE Ok(close.l, List(ofType.v))
        inner(ofType) ==
            IF ~ofType.ok THEN ofType
            ELSE closed(ofType, ConsumeToken(ofType.l, "]"))
        named(id) ==
            IF ~id.ok THEN id ELSE Ok(id.l, TypeName(id.v))
    IN  IF Peek(l) = "["
        THEN inner(ParseType(ConsumeToken(l, "[").l))
        ELSE named(ConsumeIdentWithLoc(l))

\* ParseType taking a second `!` as one more NonNull wrapper
ParseType_secondBang(l) ==
    LET nonNull(t) ==
            IF ~t.ok THEN t
            ELSE IF Peek(t.l) = "!"
            THEN IF Peek(Advance(t.l)) = "!"
                 THEN Ok(Advance(Advance(t.l)), NonNull(NonNull(t.v)))
                 ELSE Ok(Advance(t.l), NonNull(t.v))
            ELSE t
    IN  nonNull(parseNullType(l))

ParseType(l) ==
    LET nonNull(t) ==
            IF ~t.ok THEN t
            ELSE IF Peek(t.l) = "!"
            THEN Ok(ConsumeToken(t.l, "!").l, NonNull(t.v))
            ELSE t
    IN  nonNull(parseNullType(l))

-----------------------------------------------------------------------------
(* Literals *)

BasicLit(type, txt, loc) == [k |-> "BasicLit", Type |-> type, Text |-> txt, Loc |-> loc]

NullLit(loc) == [k |-> "NullLit", Loc |-> loc]

Variable(name, loc) == [k |-> "Variable", Name |-> name, Loc |-> loc]

ListLit(entries, loc) == [k |-> "ListLit", Entries |-> entries, Loc |-> loc]

ObjectLit(fields, loc) == [k |-> "ObjectLit", Fields |-> fields, Loc |-> loc]

RECURSIVE ParseLiteral(_, _)
RECURSIVE ParseListEntries(_, _, _, _)
RECURSIVE ParseObjectFields(_, _, _, _)

ParseListEntries(l, constOnly, entries, loc) ==
    LET entry(e) ==
            IF ~e.ok THEN e
            ELSE ParseListEntries(e.l, constOnly, Append(entries, e.v), loc)
    IN  IF Peek(l) = "]"
        THEN Ok(Advance(l), ListLit(entries, loc))
        ELSE entry(ParseLiteral(l, constOnly))

ParseObjectFields(l, constOnly, fields, loc) ==
    LET valued(name, value) ==
            IF ~value.ok THEN value
            ELSE ParseObjectFields(value.l, constOnly,
                     Append(fields, [Name |-> name.v, Value |-> value.v]), loc)
        colon(name, c) ==
            IF ~c.ok THEN c ELSE valued(name, ParseLiteral(c.l, constOnly))
        named(name) ==
            IF ~name.ok THEN name ELSE colon(name, ConsumeToken(name.l, ":"))
    IN  IF Peek(l) = "}"
        THEN Ok(Advance(l), ObjectLit(fields, loc))
        ELSE named(ConsumeIdentWithLoc(l))

ParseLiteral(l, constOnly) ==
    LET variable(name) ==
            IF ~name.ok THEN name ELSE Ok(name.l, Variable(name.v, Location(l)))
    IN  IF Peek(l) = "$"
        THEN IF constOnly
             THEN SyntaxError(l, <<"variable not allowed">>)
             ELSE variable(ConsumeIdent(Advance(l)))
        ELSE IF Peek(l) \in {"Int", "Ident"}
        THEN IF Tok(l) = "null"
             THEN Ok(Advance(l), NullLit(Location(l)))
             ELSE Ok(Advance(l), BasicLit(Peek(l), Tok(l), Location(l)))
        ELSE IF Peek(l) = "["
        THEN ParseListEntries(Advance(l), constOnly, <<>>, Location(l))
        ELSE IF Peek(l) = "{"
        THEN ParseObjectFields(Advance(l), constOnly, <<>>, Location(l))
        ELSE SyntaxError(l, <<"invalid value">>)

RECURSIVE Join(_, _)
Join(parts, sep) ==
    IF parts = <<>> THEN <<>>
    ELSE IF Len(parts) = 1 THEN parts[1]
    ELSE parts[1] \o <<sep>> \o Join(Tail(parts), sep)

\* Literal.String(), as the sequence of the pieces it concatenates
RECURSIVE LiteralString(_)
LiteralString(lit) ==
    IF lit.k = "BasicLit" THEN <<lit.Text>>
    ELSE IF lit.k = "ListLit"
    THEN <<"[">> \o Join([i \in DOMAIN lit.Entries |-> LiteralString(lit.Entries[i])], ", ")
                 \o <<"]">>
    ELSE IF lit.k = "ObjectLit"
    THEN <<"{">> \o Join([i \in DOMAIN lit.Fields |->
                            <<lit.Fields[i].Name.Name, ": ">>
                                \o LiteralString(lit.Fields[i].Value)], ", ")
                 \o <<"}">>
    ELSE IF lit.k = "NullLit" THEN <<"null">>
    ELSE <<"$", lit.Name>>

-----------------------------------------------------------------------------
(* Value(vars) of a literal: the value, or the panic that unwinds the call *)

Returns(v) == [panic |-> FALSE, v |-> v]

Panics(message) == [panic |-> TRUE, v |-> message]

\* m[key] of a Go map: the zero value (nil) for a missing key
MapIndex(m, key) == IF key \in DOMAIN m THEN m[key] ELSE Nil

RECURSIVE Value(_, _)

BasicLit_Value(lit, bindings) ==
    Panics("literal value not implemented in static context")

\* entries[i] = entry.Value(bindings), in order; the first panic ends the loop
ListLit_Value(lit, bindings) ==
    IF \E i \in DOMAIN lit.Entries : Value(lit.Entries[i], bindings).panic
    THEN Value(lit.Entries[CHOOSE i \in DOMAIN lit.Entries :
                   /\ Value(lit.Entries[i], bindings).panic
                   /\ \A j \in 1..(i - 1) : ~Value(lit.Entries[j], bindings).panic],
               bindings)
    ELSE Returns([i \in DOMAIN lit.Entries |-> Value(lit.Entries[i], bindings).v])

\* fields[f.Name.Name] = f.Value.Value(bindings); a later field of the same
\* name overwrites an earlier one
ObjectLit_Value(lit, bindings) ==
    IF \E i \in DOMAIN lit.Fields : Value(lit.Fields[i].Value, bindings).panic
    THEN Value(lit.Fields[CHOOSE i \in DOMAIN lit.Fields :
                   /\ Value(lit.Fields[i].Value, bindings).panic
                   /\ \A j \in 1..(i - 1) :
                          ~Value(lit.Fields[j].Value, bindings).panic].Value,
               bindings)
    ELSE Returns([n \in {lit.Fields[i].Name.Name : i \in DOMAIN lit.Fields} |->
                     Value(lit.Fields[CHOOSE i \in DOMAIN lit.Fields :
                               /\ lit.Fields[i].Name.Name = n
                               /\ \A j \in (i + 1)..Len(lit.Fields) :
                                      lit.Fields[j].Name.Name # n].Value,
                           bindings).v])

NullLit_Value(lit, bindings) == Returns(Nil)

Variable_Value(v, bindings) == Returns(MapIndex(bindings, v.Name))

\* dynamic dispatch of Literal.Value
Value(lit, bindings) ==
    IF lit.k = "BasicLit" THEN BasicLit_Value(lit, bindings)
    ELSE IF lit.k = "ListLit" THEN ListLit_Value(lit, bindings)
    ELSE IF lit.k = "ObjectLit" THEN ObjectLit_Value(lit, bindings)
    ELSE IF lit.k = "NullLit" THEN NullLit_Value(lit, bindings)
    ELSE Variable_Value(lit, bindings)

-----------------------------------------------------------------------------
(* Arguments, directives, input values *)

Argument(name, value) == [Name |-> name, Value |-> value]

RECURSIVE ParseArgumentsLoop(_, _)
ParseArgumentsLoop(l, args) ==
    LET valued(name, value) ==
            IF ~value.ok THEN value
            ELSE ParseArgumentsLoop(value.l, Append(args, Argument(name.v, value.v)))
        colon(name, c) ==
            IF ~c.ok THEN c ELSE valued(name, ParseLiteral(c.l, FALSE))
        named(name) ==
            IF ~name.ok THEN name ELSE colon(name, ConsumeToken(name.l, ":"))
    IN  IF Peek(l) = ")" THEN Ok(l, args)
        ELSE named(ConsumeIdentWithLoc(l))

ParseArguments(l) ==
    LET closed(args, close) ==
            IF ~close.ok THEN close ELSE Ok(close.l, args.v)
        looped(args) ==
            IF ~args.ok THEN args ELSE closed(args, ConsumeToken(args.l, ")"))
        opened(open) ==
            IF ~open.ok THEN open ELSE looped(ParseArgumentsLoop(open.l, <<>>))
    IN  opened(ConsumeToken(l, "("))

\* the argument list of a field selection: (name: literal ...)
ParseArgumentsDef(l) == ParseArguments(l)

Directive(name, args) == [Name |-> name, Args |-> args]

RECURSIVE ParseDirectivesLoop(_, _)

\* the loop putting each new directive in front of the earlier ones
ParseDirectivesLoop_prepend(l, directives) ==
    LET withArgs(name, args) ==
            IF ~args.ok THEN args
            ELSE ParseDirectivesLoop(args.l,
                     <<Directive(Ident(name.v.Name, name.v.Loc - 1), args.v)>>
                         \o directives)
        named(name) ==
            IF ~name.ok THEN name
            ELSE withArgs(name, IF Peek(name.l) = "("
                                THEN ParseArguments(name.l)
                                ELSE Ok(name.l, <<>>))
    IN  IF Peek(l) # "@" THEN Ok(l, directives)
        ELSE named(ConsumeIdentWithLoc(ConsumeToken(l, "@").l))

ParseDirectivesLoop(l, directives) ==
    LET withArgs(name, args) ==
            IF ~args.ok THEN args
            ELSE ParseDirectivesLoop(args.l,
                     Append(directives,
                            Directive(Ident(name.v.Name, name.v.Loc - 1), args.v)))
        named(name) ==
            IF ~name.ok THEN name
            ELSE withArgs(name, IF Peek(name.l) = "("
                                THEN ParseArguments(name.l)
                                ELSE Ok(name.l, <<>>))
    IN  IF Peek(l) # "@" THEN Ok(l, directives)
        ELSE named(ConsumeIdentWithLoc(ConsumeToken(l, "@").l))

ParseDirectives(l) == ParseDirectivesLoop(l, <<>>)

InputValue(loc, name, typeLoc, type, default, directives) ==
    [Name |-> name, Type |-> type, Default |-> default, Desc |-> "",
     Directives |-> directives, Loc |-> loc, TypeLoc |-> typeLoc]

ParseInputValue(l) ==
    LET done(name, c, type, default, directives) ==
            IF ~directives.ok THEN directives
            ELSE Ok(directives.l,
                    InputValue(Location(l), name.v, Location(c.l), type.v,
                               default.v, directives.v))
        withDefault(name, c, type, default) ==
            IF ~default.ok THEN default
            ELSE done(name, c, type, default, ParseDirectives(default.l))
        typed(name, c, type) ==
            IF ~type.ok THEN type
            ELSE withDefault(name, c, type,
                     IF Peek(type.l) = "="
                     THEN ParseLiteral(ConsumeToken(type.l, "=").l, TRUE)
                     ELSE Ok(type.l, Nil))
        colon(name, c) ==
            IF ~c.ok THEN c ELSE typed(name, c, ParseType(c.l))
        named(name) ==
            IF ~name.ok THEN name ELSE colon(name, ConsumeToken(name.l, ":"))
    IN  named(ConsumeIdentWithLoc(l))

-----------------------------------------------------------------------------
(* Query documents *)

Query == "QUERY"

Mutation == "MUTATION"

Subscription == "SUBSCRIPTION"

NoIdent == Ident("", 0)

Operation(type, name, opVars, selections, directives, loc) ==
    [Type |-> type, Name |-> name, Vars |-> opVars, Selections |-> selections,
     Directives |-> directives, Loc |-> loc]

QueryField(alias, name, arguments, directives, selections, setLoc) ==
    [k |-> "Field", Alias |-> alias, Name |-> name, Arguments |-> arguments,
     Directives |-> directives, Selections |-> selections,
     SelectionSetLoc |-> setLoc]

InlineFragment(on, selections, directives, loc) ==
    [k |-> "InlineFragment", On |-> on, Selections |-> selections,
     Directives |-> directives, Loc |-> loc]

FragmentSpread(name, directives, loc) ==
    [k |-> "FragmentSpread", Name |-> name, Directives |-> directives, Loc |-> loc]

FragmentDecl(name, on, directives, selections, loc) ==
    [Name |-> name, On |-> on, Directives |-> directives,
     Selections |-> selections, Loc |-> loc]

Document(operations, fragments) ==
    [Operations |-> operations, Fragments |-> fragments]

RECURSIVE parseSelectionSet(_)
RECURSIVE parseSelectionSetLoop(_, _)
RECURSIVE parseSelection(_)
RECURSIVE parseFieldDef(_)
RECURSIVE parseSpread(_)

(* Each function of the query parser is split at its statements: the       *)
(* operator named f_x receives the result x of one statement of f, passes  *)
(* a syntax error on, and otherwise runs the statements that follow.       *)

\* sels = append(sels, ...) putting the new selection in front
parseSelectionSetLoop_append_prepend(sels, sel) ==
    IF ~sel.ok THEN sel
    ELSE parseSelectionSetLoop(sel.l, <<sel.v>> \o sels)

parseSelectionSetLoop_append(sels, sel) ==
    IF ~sel.ok THEN sel
    ELSE parseSelectionSetLoop(sel.l, Append(sels, sel.v))

parseSelectionSetLoop(l, sels) ==
    IF Peek(l) = "}" THEN Ok(l, sels)
    ELSE parseSelectionSetLoop_append(sels, parseSelection(l))

parseSelectionSet_close(sels, close) ==
    IF ~close.ok THEN close ELSE Ok(close.l, sels.v)

parseSelectionSet_sels(sels) ==
    IF ~sels.ok THEN sels
    ELSE parseSelectionSet_close(sels, ConsumeToken(sels.l, "}"))

parseSelectionSet_open(open) ==
    IF ~open.ok THEN open
    ELSE parseSelectionSet_sels(parseSelectionSetLoop(open.l, <<>>))

parseSelectionSet(l) == parseSelectionSet_open(ConsumeToken(l, "{"))

parseSelection(l) ==
    IF Peek(l) = "." THEN parseSpread(l) ELSE parseFieldDef(l)

parseFieldDef_selections(alias, name, arguments, directives, selections) ==
    IF ~selections.ok THEN selections
    ELSE Ok(selections.l,
            QueryField(alias.v, name.v, arguments.v, directives.v, selections.v,
                       IF Peek(directives.l) = "{"
                       THEN Location(directives.l) ELSE 0))

parseFieldDef_directives(alias, name, arguments, directives) ==
    IF ~directives.ok THEN directives
    ELSE parseFieldDef_selections(alias, name, arguments, directives,
             IF Peek(directives.l) = "{"
             THEN parseSelectionSet(directives.l)
             ELSE Ok(directives.l, <<>>))

parseFieldDef_arguments(alias, name, arguments) ==
    IF ~arguments.ok THEN arguments
    ELSE parseFieldDef_directives(alias, name, arguments,
                                  ParseDirectives(arguments.l))

parseFieldDef_name(alias, name) ==
    IF ~name.ok THEN name
    ELSE parseFieldDef_arguments(alias, name,
             IF Peek(name.l) = "("
             THEN ParseArgumentsDef(name.l)
             ELSE Ok(name.l, <<>>))

\* parseFieldDef reading `alias: name` but leaving f.Name = f.Alias
parseFieldDef_alias_keepAlias(alias) ==
    LET renamed(name) == IF ~name.ok THEN name ELSE Ok(name.l, alias.v)
    IN  IF ~alias.ok THEN alias
        ELSE parseFieldDef_name(alias,
                 IF Peek(alias.l) = ":"
                 THEN renamed(ConsumeIdentWithLoc(ConsumeToken(alias.l, ":").l))
                 ELSE alias)

parseFieldDef_alias(alias) ==
    IF ~alias.ok THEN alias
    ELSE parseFieldDef_name(alias,
             IF Peek(alias.l) = ":"
             THEN ConsumeIdentWithLoc(ConsumeToken(alias.l, ":").l)
             ELSE alias)

parseFieldDef(l) == parseFieldDef_alias(ConsumeIdentWithLoc(l))

parseSpread_spread(loc, ident, directives) ==
    IF ~directives.ok THEN directives
    ELSE Ok(directives.l, FragmentSpread(ident.v, directives.v, loc))

parseSpread_selections(loc, on, directives, selections) ==
    IF ~selections.ok THEN selections
    ELSE Ok(selections.l,
            InlineFragment(TypeName(on.v), selections.v, directives.v, loc))

parseSpread_directives(loc, on, directives) ==
    IF ~directives.ok THEN directives
    ELSE parseSpread_selections(loc, on, directives,
                                parseSelectionSet(directives.l))

parseSpread_on(loc, on) ==
    IF ~on.ok THEN on
    ELSE parseSpread_directives(loc, on, ParseDirectives(on.l))

\* every identifier after the dots, `on` included, names a fragment
parseSpread_ident_noTypeCondition(loc, ident) ==
    parseSpread_spread(loc, ident, ParseDirectives(ident.l))

parseSpread_ident(loc, ident) ==
    IF ident.v.Name # "on"
    THEN parseSpread_spread(loc, ident, ParseDirectives(ident.l))
    ELSE parseSpread_on(loc, ConsumeIdentWithLoc(ident.l))

parseSpread_dot3(loc, dot) ==
    IF ~dot.ok THEN dot
    ELSE IF Peek(dot.l) = "Ident"
    THEN parseSpread_ident(loc, ConsumeIdentWithLoc(dot.l))
    ELSE parseSpread_on(loc, Ok(dot.l, NoIdent))

parseSpread_dot2(loc, dot) ==
    IF ~dot.ok THEN dot ELSE parseSpread_dot3(loc, ConsumeToken(dot.l, "."))

parseSpread_dot1(loc, dot) ==
    IF ~dot.ok THEN dot ELSE parseSpread_dot2(loc, ConsumeToken(dot.l, "."))

parseSpread(l) == parseSpread_dot1(Location(l), ConsumeToken(l, "."))

RECURSIVE parseOperationVars(_, _)

parseOperationVars_iv(loc, opVars, iv) ==
    IF ~iv.ok THEN iv
    ELSE parseOperationVars(iv.l, Append(opVars, [iv.v EXCEPT !.Loc = loc]))

parseOperationVars_dollar(loc, opVars, dollar) ==
    IF ~dollar.ok THEN dollar
    ELSE parseOperationVars_iv(loc, opVars, ParseInputValue(dollar.l))

parseOperationVars(l, opVars) ==
    IF Peek(l) = ")" THEN Ok(l, opVars)
    ELSE parseOperationVars_dollar(Location(l), opVars, ConsumeToken(l, "$"))

parseOperation_selections(opType, name, directives, opVars, selections) ==
    IF ~selections.ok THEN selections
    ELSE Ok(selections.l,
            Operation(opType, name.v, opVars, selections.v, directives.v, 0))

parseOperation_close(opType, name, directives, opVars, close) ==
    IF ~close.ok THEN close
    ELSE parseOperation_selections(opType, name, directives, opVars.v,
                                   parseSelectionSet(close.l))

parseOperation_vars(opType, name, directives, opVars) ==
    IF ~opVars.ok THEN opVars
    ELSE parseOperation_close(opType, name, directives, opVars,
                              ConsumeToken(opVars.l, ")"))

parseOperation_directives(opType, name, directives) ==
    IF ~directives.ok THEN directives
    ELSE IF Peek(directives.l) = "("
    THEN parseOperation_vars(opType, name, directives,
             parseOperationVars(ConsumeToken(directives.l, "(").l, <<>>))
    ELSE parseOperation_selections(opType, name, directives, <<>>,
                                   parseSelectionSet(directives.l))

parseOperation_name(opType, name) ==
    parseOperation_directives(opType, name, ParseDirectives(name.l))

parseOperation(l, opType) ==
    parseOperation_name(opType,
        IF Peek(l) = "Ident"
        THEN ConsumeIdentWithLoc(l)
        ELSE Ok(l, Ident("", Location(l))))

parseFragment_selections(name, on, directives, selections) ==
    IF ~selections.ok THEN selections
    ELSE Ok(selections.l,
            FragmentDecl(name.v, TypeName(on.v), directives.v, selections.v, 0))

parseFragment_directives(name, on, directives) ==
    IF ~directives.ok THEN directives
    ELSE parseFragment_selections(name, on, directives,
                                  parseSelectionSet(directives.l))

parseFragment_on(name, on) ==
    IF ~on.ok THEN on
    ELSE parseFragment_directives(name, on, ParseDirectives(on.l))

parseFragment_keyword(name, keyword) ==
    IF ~keyword.ok THEN keyword
    ELSE parseFragment_on(name, ConsumeIdentWithLoc(keyword.l))

parseFragment_name(name) ==
    IF ~name.ok THEN name
    ELSE parseFragment_keyword(name, ConsumeKeyword(name.l, "on"))

parseFragment(l) == parseFragment_name(ConsumeIdentWithLoc(l))

AppendOperation(d, op) == [d EXCEPT !.Operations = Append(@, op)]

AppendFragment(d, frag) == [d EXCEPT !.Fragments = Append(@, frag)]

RECURSIVE parseDocumentLoop(_, _)

parseDocument_anonymous(d, loc, selections) ==
    IF ~selections.ok THEN selections
    ELSE parseDocumentLoop(selections.l,
             AppendOperation(d, Operation(Query, NoIdent, <<>>, selections.v,
                                          <<>>, loc)))

parseDocument_query(d, loc, op) ==
    IF ~op.ok THEN op
    ELSE parseDocumentLoop(op.l, AppendOperation(d, [op.v EXCEPT !.Loc = loc]))

parseDocument_operation(d, op) ==
    IF ~op.ok THEN op
    ELSE parseDocumentLoop(op.l, AppendOperation(d, op.v))

parseDocument_fragment(d, loc, frag) ==
    IF ~frag.ok THEN frag
    ELSE parseDocumentLoop(frag.l,
                           AppendFragment(d, [frag.v EXCEPT !.Loc = loc]))

\* the switch treating `mutation` like `query`
parseDocument_switch_mutationAsQuery(d, loc, x) ==
    IF ~x.ok THEN x
    ELSE IF x.v \in {"query", "mutation"}
    THEN parseDocument_query(d, loc, parseOperation(x.l, Query))
    ELSE IF x.v = "subscription"
    THEN parseDocument_operation(d, parseOperation(x.l, Subscription))
    ELSE IF x.v = "fragment"
    THEN parseDocument_fragment(d, loc, parseFragment(x.l))
    ELSE SyntaxError(x.l, <<"unexpected ", "\"", x.v, "\"",
                            ", expecting \"fragment\"">>)

parseDocument_switch(d, loc, x) ==
    IF ~x.ok THEN x
    ELSE IF x.v = "query"
    THEN parseDocument_query(d, loc, parseOperation(x.l, Query))
    ELSE IF x.v = "mutation"
    THEN parseDocument_operation(d, parseOperation(x.l, Mutation))
    ELSE IF x.v = "subscription"
    THEN parseDocument_operation(d, parseOperation(x.l, Subscription))
    ELSE IF x.v = "fragment"
    THEN parseDocument_fragment(d, loc, parseFragment(x.l))
    ELSE SyntaxError(x.l, <<"unexpected ", "\"", x.v, "\"",
                            ", expecting \"fragment\"">>)

parseDocumentLoop(l, d) ==
    IF Peek(l) = "EOF" THEN Ok(l, d)
    ELSE IF Peek(l) = "{"
    THEN parseDocument_anonymous(d, Location(l), parseSelectionSet(l))
    ELSE parseDocument_switch(d, Location(l), ConsumeIdent(l))

parseDocument(l) == parseDocumentLoop(l, Document(<<>>, <<>>))

\* runs the parser; a syntax error raised inside comes back as the error
CatchSyntaxError(r) == IF r.ok THEN Nil ELSE r.v

\* query.Parse that returns a nil error whatever happened
query_Parse_dropError(queryString) ==
    LET returned(r) == [doc |-> IF r.ok THEN r.v ELSE Nil, err |-> Nil]
    IN  returned(parseDocument(NewLexer(queryString)))

query_Parse(queryString) ==
    LET returned(doc, err) ==
            IF err # Nil
            THEN [doc |-> Nil, err |-> err]
            ELSE [doc |-> doc, err |-> Nil]
        caught(r) == returned(IF r.ok THEN r.v ELSE Nil, CatchSyntaxError(r))
    IN  caught(parseDocument(NewLexer(queryString)))

-----------------------------------------------------------------------------
(* Schema source: the declarations the entry point hands to the schema     *)
(* parser (scalar and object declarations).                                *)

Schema(types) == [Types |-> types]

Scalar(name) == [Name |-> name, Kind |-> "SCALAR", Fields |-> <<>>]

RECURSIVE parseFieldsDef(_, _)
parseFieldsDef(l, fields) ==
    LET typed(name, type) ==
            IF ~type.ok THEN type
            ELSE parseFieldsDef(type.l,
                     Append(fields, [Name |-> name.v.Name, Type |-> type.v]))
        colon(name, c) ==
            IF ~c.ok THEN c ELSE typed(name, ParseType(c.l))
        named(name) ==
            IF ~name.ok THEN name ELSE colon(name, ConsumeToken(name.l, ":"))
    IN  IF Peek(l) = "}" THEN Ok(l, fields)
        ELSE named(ConsumeIdentWithLoc(l))

RECURSIVE ParseSchema(_, _)
ParseSchema(s, l) ==
    LET scalar(name) ==
            IF ~name.ok THEN name
            ELSE ParseSchema(Schema((name.v :> Scalar(name.v)) @@ s.Types), name.l)
        closed(name, fields, close) ==
            IF ~close.ok THEN close
            ELSE ParseSchema(
                     Schema((name.v :> [Name |-> name.v, Kind |-> "OBJECT",
                                        Fields |-> fields.v]) @@ s.Types),
                     close.l)
        looped(name, fields) ==
            IF ~fields.ok THEN fields
            ELSE closed(name, fields, ConsumeToken(fields.l, "}"))
        opened(name, open) ==
            IF ~open.ok THEN open
            ELSE looped(name, parseFieldsDef(open.l, <<>>))
        object(name) ==
            IF ~name.ok THEN name ELSE opened(name, ConsumeToken(name.l, "{"))
        switch(x) ==
            IF ~x.ok THEN x
            ELSE IF x.v = "scalar" THEN scalar(ConsumeIdent(x.l))
            ELSE IF x.v = "type" THEN object(ConsumeIdent(x.l))
            ELSE SyntaxError(x.l, <<"unexpected ", "\"", x.v, "\"",
                                    ", expecting \"schema\", \"type\", \"scalar\"">>)
    IN  IF Peek(l) = "EOF" THEN Ok(l, s)
        ELSE switch(ConsumeIdent(l))

\* what the caller of parser.Parse gets: the two results, or the panic
\* that unwinds through it
parser_Parse(schemaString) ==
    LET returned(r) ==
            IF r.ok
            THEN [schema |-> r.v, err |-> Nil, panic |-> Nil]
            ELSE [schema |-> Nil, err |-> Nil, panic |-> r.v]
    IN  returned(ParseSchema(Schema(<<>>), NewLexer(schemaString)))

-----------------------------------------------------------------------------
(* Declared types and printing *)

DeclName(t) == table[t.key].Name

PanicText == [panic |-> TRUE, s |-> <<>>]

RECURSIVE String(_)

\* String() with the non-null mark written before the wrapped type
String_bangFirst(t) ==
    IF t.k = "List"
    THEN LET in == String(t.of)
         IN  IF in.panic THEN in
             ELSE [panic |-> FALSE, s |-> <<"[">> \o in.s \o <<"]">>]
    ELSE IF t.k = "NonNull"
    THEN LET in == String(t.of)
         IN  IF in.panic THEN in
             ELSE [panic |-> FALSE, s |-> <<"!">> \o in.s]
    ELSE IF t.k = "Declared"
    THEN [panic |-> FALSE, s |-> <<DeclName(t)>>]
    ELSE PanicText

String(t) ==
    IF t.k = "List"
    THEN LET in == String(t.of)
         IN  IF in.panic THEN in
             ELSE [panic |-> FALSE, s |-> <<"[">> \o in.s \o <<"]">>]
    ELSE IF t.k = "NonNull"
    THEN LET in == String(t.of)
         IN  IF in.panic THEN in
             ELSE [panic |-> FALSE, s |-> in.s \o <<"!">>]
    ELSE IF t.k = "Declared"
    THEN [panic |-> FALSE, s |-> <<DeclName(t)>>]
    ELSE PanicText

\* Schema.Resolve: the entry of Schema.Types, nil when there is none
Resolve(name) ==
    IF name \in DOMAIN table THEN Declared(name) ELSE Nil

Errorf(name) ==
    [Message |-> <<"Unknown type ", "\"", name, "\"", ".">>,
     Rule |-> "",
     Locations |-> <<>>]


-----------------------------------------------------------------------------
(* Symbol tables the schema parser leaves behind: every declared type is   *)
(* stored under its own name; field types are still unresolved references. *)

Object(name, fields) == [Name |-> name, Kind |-> "OBJECT", Fields |-> fields]

Field(name, type) == [Name |-> name, Type |-> type]

\* type A { f: A }   and   type A { f: [B!]  h: [U]! }  type B { g: A! }
Tables ==
    { "A" :> Object("A", <<Field("f", TypeName(Ident("A", 11)))>>),
      ("A" :> Object("A", <<Field("f", List(NonNull(TypeName(Ident("B", 21))))),
                            Field("h", NonNull(List(TypeName(Ident("U", 22)))))>>))
      @@ ("B" :> Object("B", <<Field("g", NonNull(TypeName(Ident("A", 23))))>>)) }

TypeSources == SeqsUpTo({"[", "]", "!", "A", "U"}, MaxSrcLen)

-----------------------------------------------------------------------------
(* Type resolution *)

Returned == pc = "ret" /\ stack = <<>>

Pop(s) == SubSeq(s, 1, Len(s) - 1)

Top(s) == s[Len(s)]

\* ParseType applied to a source that holds one type reference
ParseTypeSource ==
    /\ mode = "type"
    /\ pc = "start"
    /\ LET r == ParseType(NewLexer(src))
       IN  IF r.ok /\ AtEOF(r.l)
           THEN /\ input' = r.v
                /\ todo' = r.v
                /\ calls' = 1
                /\ pc' = "call"
                /\ out' = Nil
           ELSE /\ pc' = "syntaxerror"
                /\ out' = IF r.ok THEN Unexpected(r.l, "EOF").v ELSE r.v
                /\ UNCHANGED <<input, todo, calls>>
    /\ UNCHANGED <<mode, src, pieces, table, origin, stack, ret, text>>

\* the linker hands the type of field i of object o to ResolveType
ResolveField(o, i) ==
    /\ mode = "link"
    /\ pc = "idle"
    /\ origin' = <<o, i>>
    /\ input' = table[o].Fields[i].Type
    /\ todo' = table[o].Fields[i].Type
    /\ stack' = <<>>
    /\ ret' = Nil
    /\ calls' = 1
    /\ pc' = "call"
    /\ UNCHANGED <<mode, src, pieces, table, text, out>>

\* ... and stores the resolved type, or gives up on the first error
LinkField ==
    /\ mode = "link"
    /\ Returned
    /\ IF ret.err = Nil
       THEN /\ table' = [table EXCEPT ![origin[1]].Fields[origin[2]].Type = ret.type]
            /\ pc' = "idle"
       ELSE /\ pc' = "failed"
            /\ UNCHANGED table
    /\ UNCHANGED <<mode, src, pieces, origin, input, todo, stack, ret, calls, text, out>>

ResolveType_List ==
    /\ pc = "call"
    /\ todo.k = "List"
    /\ stack' = Append(stack, "List")
    /\ todo' = todo.of
    /\ calls' = calls + 1
    /\ UNCHANGED <<mode, src, pieces, table, pc, origin, input, ret, text, out>>

ResolveType_NonNull ==
    /\ pc = "call"
    /\ todo.k = "NonNull"
    /\ stack' = Append(stack, "NonNull")
    /\ todo' = todo.of
    /\ calls' = calls + 1
    /\ UNCHANGED <<mode, src, pieces, table, pc, origin, input, ret, text, out>>

\* the TypeName case with the error's location left out
ResolveType_TypeName_noLocation ==
    /\ pc = "call"
    /\ todo.k = "TypeName"
    /\ LET refT == Resolve(todo.Name)
       IN  ret' = IF refT = Nil
                  THEN [type |-> Nil,
                        err |-> [Errorf(todo.Name) EXCEPT !.Rule = "KnownTypeNames"]]
                  ELSE [type |-> refT, err |-> Nil]
    /\ pc' = "ret"
    /\ UNCHANGED <<mode, src, pieces, table, origin, input, todo, stack, calls, text, out>>

\* the TypeName case resolving the found declaration's own fields as well
ResolveType_TypeName_descend ==
    /\ pc = "call"
    /\ todo.k = "TypeName"
    /\ calls < 6
    /\ LET refT == Resolve(todo.Name)
       IN  IF refT = Nil
           THEN /\ ret' = [type |-> Nil,
                           err |-> [Errorf(todo.Name) EXCEPT
                                      !.Rule = "KnownTypeNames",
                                      !.Locations = <<todo.Loc>>]]
                /\ pc' = "ret"
                /\ UNCHANGED <<todo, stack, calls>>
           ELSE /\ todo' = table[todo.Name].Fields[1].Type
                /\ stack' = Append(stack, "NonNull")
                /\ calls' = calls + 1
                /\ UNCHANGED <<ret, pc>>
    /\ UNCHANGED <<mode, src, pieces, table, origin, input, text, out>>

ResolveType_TypeName ==
    /\ pc = "call"
    /\ todo.k = "TypeName"
    /\ LET refT == Resolve(todo.Name)
       IN  ret' = IF refT = Nil
                  THEN [type |-> Nil,
                        err |-> [Errorf(todo.Name) EXCEPT
                                   !.Rule = "KnownTypeNames",
                                   !.Locations = <<todo.Loc>>]]
                  ELSE [type |-> refT, err |-> Nil]
    /\ pc' = "ret"
    /\ UNCHANGED <<mode, src, pieces, table, origin, input, todo, stack, calls, text, out>>

ResolveType_default ==
    /\ pc = "call"
    /\ todo.k = "Declared"
    /\ ret' = [type |-> todo, err |-> Nil]
    /\ pc' = "ret"
    /\ UNCHANGED <<mode, src, pieces, table, origin, input, todo, stack, calls, text, out>>

\* the List case building the wrong wrapper
ResolveType_ListReturn_wrongWrapper ==
    /\ pc = "ret"
    /\ stack # <<>>
    /\ Top(stack) = "List"
    /\ ret' = IF ret.err # Nil
              THEN [type |-> Nil, err |-> ret.err]
              ELSE [type |-> NonNull(ret.type), err |-> Nil]
    /\ stack' = Pop(stack)
    /\ UNCHANGED <<mode, src, pieces, table, pc, origin, input, todo, calls, text, out>>

ResolveType_ListReturn ==
    /\ pc = "ret"
    /\ stack # <<>>
    /\ Top(stack) = "List"
    /\ ret' = IF ret.err # Nil
              THEN [type |-> Nil, err |-> ret.err]
              ELSE [type |-> List(ret.type), err |-> Nil]
    /\ stack' = Pop(stack)
    /\ UNCHANGED <<mode, src, pieces, table, pc, origin, input, todo, calls, text, out>>

\* the NonNull case storing the resolved type into the node it was given
\* and returning that node
ResolveType_NonNullReturn_inPlace ==
    /\ pc = "ret"
    /\ stack # <<>>
    /\ Top(stack) = "NonNull"
    /\ ret' = IF ret.err # Nil
              THEN [type |-> Nil, err |-> ret.err]
              ELSE [type |-> NonNull(ret.type), err |-> Nil]
    /\ input' = IF ret.err = Nil /\ Len(stack) = 1 THEN NonNull(ret.type) ELSE input
    /\ stack' = Pop(stack)
    /\ UNCHANGED <<mode, src, pieces, table, pc, origin, todo, calls, text, out>>

ResolveType_NonNullReturn ==
    /\ pc = "ret"
    /\ stack # <<>>
    /\ Top(stack) = "NonNull"
    /\ ret' = IF ret.err # Nil
              THEN [type |-> Nil, err |-> ret.err]
              ELSE [type |-> NonNull(ret.type), err |-> Nil]
    /\ stack' = Pop(stack)
    /\ UNCHANGED <<mode, src, pieces, table, pc, origin, input, todo, calls, text, out>>

\* String() of the resolved reference
PrintResolved ==
    /\ mode = "type"
    /\ Returned
    /\ ret.err = Nil
    /\ text' = String(ret.type)
    /\ pc' = "printed"
    /\ UNCHANGED <<mode, src, pieces, table, origin, input, todo, stack, ret, calls, out>>

InitType ==
    /\ mode \in {"type", "link"}
    /\ table \in Tables
    /\ src \in IF mode = "type" THEN TypeSources ELSE {<<>>}
    /\ pieces = 0
    /\ pc = IF mode = "type" THEN "start" ELSE "idle"
    /\ origin = <<>>
    /\ input = Nil
    /\ todo = Nil
    /\ stack = <<>>
    /\ ret = Nil
    /\ calls = 0
    /\ text = PanicText
    /\ out = Nil

NextType ==
    \/ ParseTypeSource
    \/ \E o \in DOMAIN table : \E i \in DOMAIN table[o].Fields : ResolveField(o, i)
    \/ LinkField
    \/ ResolveType_List
    \/ ResolveType_NonNull
    \/ ResolveType_TypeName
    \/ ResolveType_default
    \/ ResolveType_ListReturn
    \/ ResolveType_NonNullReturn
    \/ PrintResolved

SpecType == InitType /\ [][NextType]_vars

-----------------------------------------------------------------------------
(* Properties of type resolution *)

RECURSIVE Wrappers(_)
Wrappers(t) ==
    IF t.k \in {"List", "NonNull"} THEN <<t.k>> \o Wrappers(t.of) ELSE <<>>

RECURSIVE Leaf(_)
Leaf(t) == IF t.k \in {"List", "NonNull"} THEN Leaf(t.of) ELSE t

Depth(t) == Len(Wrappers(t))

LeafName(t) == IF Leaf(t).k = "TypeName" THEN Leaf(t).Name ELSE DeclName(Leaf(t))

LeafDeclared(t) ==
    \/ Leaf(t).k = "Declared"
    \/ Leaf(t).k = "TypeName" /\ Leaf(t).Name \in DOMAIN table

LeafUnknown(t) == Leaf(t).k = "TypeName" /\ Leaf(t).Name \notin DOMAIN table

\* C1: when the leaf name of a reference is declared, ResolveType succeeds
\* and returns the same List/NonNull nesting around the declared type of
\* that name; no TypeName node is left in the result.
C1_ResolveKeepsNesting ==
    (Returned /\ LeafDeclared(input)) =>
        /\ ret.err = Nil
        /\ Wrappers(ret.type) = Wrappers(input)
        /\ Leaf(ret.type).k = "Declared"
        /\ DeclName(Leaf(ret.type)) = LeafName(input)

C1_Witness ==
    /\ Returned
    /\ Wrappers(input) = <<"List", "List", "NonNull">>
    /\ Leaf(input).k = "TypeName"
    /\ ret.type = List(List(NonNull(Declared("A"))))

\* C2: when the leaf name is not declared, at any nesting depth, ResolveType
\* returns a nil type and the error `Unknown type "<name>".` with rule
\* KnownTypeNames and the one location of the referencing identifier.
C2_UnknownTypeError ==
    (Returned /\ LeafUnknown(input)) =>
        /\ ret.type = Nil
        /\ ret.err = [Message |-> <<"Unknown type ", "\"", Leaf(input).Name, "\"", ".">>,
                      Rule |-> "KnownTypeNames",
                      Locations |-> <<Leaf(input).Loc>>]

C2_Witness ==
    /\ Returned
    /\ origin = <<"A", 2>>
    /\ Depth(input) = 2
    /\ ret.type = Nil
    /\ ret.err.Locations = <<22>>

\* C3: for a well-formed type source, ParseType, then ResolveType against a
\* table declaring the name, then String() gives back the source text.
C3_ParsePrintRoundTrip ==
    pc = "printed" => (~text.panic /\ text.s = src)

C3_Witness ==
    /\ pc = "printed"
    /\ src = <<"[", "[", "A", "!", "]", "!", "]">>
    /\ text.s = src

\* C4: on self- and mutually-referential type graphs ResolveType is invoked
\* once per wrapper plus once for the name, the pending calls never exceed
\* the wrapper depth, and the name resolves to the table entry itself.
C4_RecursionBoundedByWrappers ==
    pc \in {"call", "ret"} =>
        /\ Len(stack) <= Depth(input)
        /\ calls <= Depth(input) + 1
        /\ (Returned => calls = Depth(input) + 1)
        /\ (pc = "ret" /\ Len(stack) = Depth(input) /\ ret.err = Nil) =>
               ret.type = IF Leaf(input).k = "TypeName"
                          THEN Declared(Leaf(input).Name) ELSE Leaf(input)

\* B's field of type A! is resolved after A's field of type [B!] was linked
C4_Witness ==
    /\ Returned
    /\ origin = <<"B", 1>>
    /\ Leaf(input).k = "TypeName"
    /\ table["A"].Fields[1].Type = List(NonNull(Declared("B")))
    /\ ret.type = NonNull(Declared("A"))
    /\ calls = 2

\* ResolveType as the function of its argument and the table that the code
\* computes
RECURSIVE ResolveType(_)
ResolveType(t) ==
    LET list(ofType) ==
            IF ofType.err # Nil THEN [type |-> Nil, err |-> ofType.err]
            ELSE [type |-> List(ofType.type), err |-> Nil]
        nonNull(ofType) ==
            IF ofType.err # Nil THEN [type |-> Nil, err |-> ofType.err]
            ELSE [type |-> NonNull(ofType.type), err |-> Nil]
        typeName(refT) ==
            IF refT = Nil
            THEN [type |-> Nil,
                  err |-> [Errorf(t.Name) EXCEPT !.Rule = "KnownTypeNames",
                                                 !.Locations = <<t.Loc>>]]
            ELSE [type |-> refT, err |-> Nil]
    IN  IF t.k = "List" THEN list(ResolveType(t.of))
        ELSE IF t.k = "NonNull" THEN nonNull(ResolveType(t.of))
        ELSE IF t.k = "TypeName" THEN typeName(Resolve(t.Name))
        ELSE [type |-> t, err |-> Nil]

\* C19: from the call to the return, with or without an error, the tree
\* handed to ResolveType is the tree it was (the parsed reference, or the
\* field type still in the table); the result depends on the tree and the
\* table alone; a tree whose leaf is a declared type comes back equal and
\* never reaches the TypeName case, the only one that asks the resolver.
C19_InputUnchanged ==
    /\ (mode = "type" /\ pc \in {"call", "ret", "printed"}) =>
           input = ParseType(NewLexer(src)).v
    /\ (mode = "link" /\ pc \in {"call", "ret"}) =>
           input = table[origin[1]].Fields[origin[2]].Type
    /\ Returned => ret = ResolveType(input)
    /\ (Returned /\ Leaf(input).k = "Declared") =>
           (ret.err = Nil /\ ret.type = input)
    /\ (pc = "call" /\ Leaf(input).k = "Declared") => todo.k # "TypeName"

\* a field type that was linked before is resolved again
C19_Witness ==
    /\ mode = "link"
    /\ Returned
    /\ Leaf(input).k = "Declared"
    /\ Depth(input) = 2
    /\ ret.type = input

\* positions of a `!` that directly follows another `!`
SecondBangs(s) == {p \in 2..Len(s) : s[p - 1] = "!" /\ s[p] = "!"}

RECURSIVE NonNullOfNonNull(_)
NonNullOfNonNull(t) ==
    IF t.k = "NonNull" THEN t.of.k = "NonNull" \/ NonNullOfNonNull(t.of)
    ELSE IF t.k = "List" THEN NonNullOfNonNull(t.of)
    ELSE FALSE

\* C13: a type source with a double `!` is rejected with an "unexpected
\* token" syntax error located no later than the second `!` (at the second
\* `!`, the unexpected token is that `!`), and no parsed tree has a NonNull
\* directly around a NonNull.
C13_DoubleBangRejected ==
    /\ (mode = "type" /\ pc # "start" /\ SecondBangs(src) # {}) =>
           /\ pc = "syntaxerror"
           /\ out.Message[2] = "unexpected "
           /\ \A p \in SecondBangs(src) : out.Locations[1] <= p
           /\ (out.Locations[1] \in SecondBangs(src) => out.Message[4] = "!")
    /\ (mode = "type" /\ input # Nil) => ~NonNullOfNonNull(input)

C13_Witness ==
    /\ mode = "type"
    /\ pc = "syntaxerror"
    /\ src = <<"[", "A", "!", "!", "]">>
    /\ out.Locations = <<4>>
    /\ out.Message[7] = "]"

-----------------------------------------------------------------------------
(* The parsers applied to source texts *)

\* { user(id: 1) { name friends { name } } }
UserFriendsDocument ==
    <<"{", "user", "(", "id", ":", "1", ")", "{", "name", "friends",
      "{", "name", "}", "}", "}">>

\* the pieces a source text of each kind is put together from
ChunksOf(m) ==
    IF m = "directives" THEN
        {<<"@", "a">>, <<"@", "b">>, <<"(">>, <<")">>, <<"x", ":", "1">>, <<"@">>, <<"f">>}
    ELSE IF m = "selection" THEN
        {<<".", ".", ".">>, <<"on">>, <<"User">>, <<"{", "name", "}">>, <<"@", "d">>,
         <<":">>, <<"(", "id", ":", "1", ")">>, <<"a", ":">>}
    ELSE IF m = "operation" THEN
        {<<"Q">>, <<"(", "$", "a", ":", "Int", ")">>, <<"@", "d">>, <<"{", "f", "}">>,
         <<"(">>, <<")">>, <<"$", "a", ":", "Int">>}
    ELSE IF m = "document" THEN
        {<<"query">>, <<"mutation">>, <<"subscription">>,
         <<"fragment", "Frag", "on", "User">>, <<"Q">>, <<"{", "f", "}">>,
         <<"{">>, <<"@", "d">>}
    ELSE IF m = "inputvalue" THEN
        {<<"a", ":", "Int">>, <<"=">>, <<"1">>, <<"$", "b">>, <<"@", "d">>,
         <<"(", "x", ":">>, <<")">>}
    ELSE IF m = "literal" THEN
        {<<"1">>, <<"[">>, <<"]">>, <<"{", "x", ":">>, <<"}">>, <<"$", "b">>,
         <<"null">>}
    ELSE IF m = "arguments" THEN
        {<<"(">>, <<")">>, <<"x", ":", "1">>, <<"x", ":", "null">>, <<"a", ":", "$", "b">>}
    ELSE
        {<<"scalar", "A">>, <<"type", "B", "{">>, <<"f", ":", "[", "A", "]", "!">>,
         <<"}">>, <<"type">>, <<"query">>}

\* the source text grows by one piece
WriteSource(c) ==
    /\ pc = "start"
    /\ pieces < MaxChunks
    /\ src' = src \o c
    /\ pieces' = pieces + 1
    /\ UNCHANGED <<mode, table, pc, origin, input, todo, stack, ret, calls, text, out>>

\* the source text is one of the example documents
WriteExample(d) ==
    /\ mode = "document"
    /\ pc = "start"
    /\ pieces = 0
    /\ src' = d
    /\ pieces' = MaxChunks
    /\ UNCHANGED <<mode, table, pc, origin, input, todo, stack, ret, calls, text, out>>

ApplyParseDirectives ==
    /\ mode = "directives"
    /\ pc = "start"
    /\ out' = ParseDirectives(NewLexer(src))
    /\ pc' = "parsed"
    /\ UNCHANGED <<mode, src, pieces, table, origin, input, todo, stack, ret, calls, text>>

ApplyParseSelection ==
    /\ mode = "selection"
    /\ pc = "start"
    /\ out' = parseSelection(NewLexer(src))
    /\ pc' = "parsed"
    /\ UNCHANGED <<mode, src, pieces, table, origin, input, todo, stack, ret, calls, text>>

ApplyParseOperation ==
    /\ mode = "operation"
    /\ pc = "start"
    /\ out' = parseOperation(NewLexer(src), Query)
    /\ pc' = "parsed"
    /\ UNCHANGED <<mode, src, pieces, table, origin, input, todo, stack, ret, calls, text>>

ParseQuery ==
    /\ mode = "document"
    /\ pc = "start"
    /\ out' = query_Parse(src)
    /\ pc' = "parsed"
    /\ UNCHANGED <<mode, src, pieces, table, origin, input, todo, stack, ret, calls, text>>

ParseSchemaSource ==
    /\ mode = "schema"
    /\ pc = "start"
    /\ out' = parser_Parse(src)
    /\ pc' = "parsed"
    /\ UNCHANGED <<mode, src, pieces, table, origin, input, todo, stack, ret, calls, text>>

InitParse ==
    /\ mode \in {"directives", "selection", "operation", "document", "schema"}
    /\ src = <<>>
    /\ pieces = 0
    /\ table = <<>>
    /\ pc = "start"
    /\ origin = <<>>
    /\ input = Nil
    /\ todo = Nil
    /\ stack = <<>>
    /\ ret = Nil
    /\ calls = 0
    /\ text = PanicText
    /\ out = Nil

NextParse ==
    \/ \E c \in ChunksOf(mode) : WriteSource(c)
    \/ \E d \in {UserFriendsDocument} : WriteExample(d)
    \/ ApplyParseDirectives
    \/ ApplyParseSelection
    \/ ApplyParseOperation
    \/ ParseQuery
    \/ ParseSchemaSource

SpecParse == InitParse /\ [][NextParse]_vars

-----------------------------------------------------------------------------
(* Properties of the parsers *)

Parsed(m) == mode = m /\ pc = "parsed"

Names(elems) == [i \in DOMAIN elems |-> elems[i].Name.Name]

Consumed == SubSeq(src, 1, out.l.pos - 1)

VarsA == <<"(", "$", "a", ":", "Int", ")">>

SetF == <<"{", "f", "}">>

\* C5: an operation is an optional name, an optional variable-definition
\* list, directives and a selection set, in this order; without the selection
\* set it is a syntax error.
C5_OperationPartsInOrder ==
    Parsed("operation") =>
        \A n \in {<<>>, <<"Q">>} : \A v \in {<<>>, VarsA} : \A d \in {<<>>, <<"@", "d">>} :
            /\ (src = n \o v \o d \o SetF) =>
                   /\ out.ok
                   /\ Names(out.v.Vars) = (IF v = <<>> THEN <<>> ELSE <<"a">>)
                   /\ Names(out.v.Directives) = (IF d = <<>> THEN <<>> ELSE <<"d">>)
            /\ (src = n \o v \o d) => ~out.ok

\* C6: after `...` an identifier other than `on` gives a FragmentSpread of
\* that name and leaves a following selection set unread; `on T` gives an
\* InlineFragment on T and a selection set gives an InlineFragment with an
\* empty type condition, both ending with their selection set.
C6_SpreadClassification ==
    (Parsed("selection") /\ Len(src) >= 4 /\ SubSeq(src, 1, 3) = <<".", ".", ".">>) =>
        /\ (src[4] \in IdentTokens /\ src[4] # "on") =>
               /\ out.ok => (/\ out.v.k = "FragmentSpread"
                             /\ out.v.Name = Ident(src[4], 4)
                             /\ \A i \in 5..(out.l.pos - 1) : src[i] # "{")
               /\ (Len(src) >= 5 /\ src[5] = "{") => (out.ok /\ out.l.pos = 5)
        /\ (src[4] = "on") =>
               /\ out.ok => (/\ out.v.k = "InlineFragment"
                             /\ out.v.On = TypeName(Ident(src[5], 5))
                             /\ src[out.l.pos - 1] = "}")
               /\ (Len(src) = 5 \/ (Len(src) > 5 /\ src[6] \notin {"{", "@"})) => ~out.ok
        /\ (src[4] = "{" /\ out.ok) =>
               /\ out.v.k = "InlineFragment"
               /\ out.v.On = TypeName(NoIdent)
               /\ src[out.l.pos - 1] = "}"

C6_Witness ==
    /\ Parsed("selection")
    /\ src = <<".", ".", ".", "on", "User", "{", "name", "}">>
    /\ out.ok
    /\ out.v.k = "InlineFragment"
    /\ out.v.On.Name = "User"
    /\ Names(out.v.Selections) = <<"name">>

BareSelectionSet(s) ==
    LET whole(r) == r.ok /\ AtEOF(r.l) IN whole(parseSelectionSet(NewLexer(s)))

\* C7: a document that is one bare selection set parses into exactly one
\* operation, of kind Query, with an empty name, and no fragments; the
\* selections follow the source order and nesting.
C7_BareSelectionSetIsAnonymousQuery ==
    (Parsed("document") /\ BareSelectionSet(src)) =>
        /\ out.err = Nil
        /\ Len(out.doc.Operations) = 1
        /\ out.doc.Operations[1].Type = Query
        /\ out.doc.Operations[1].Name.Name = ""
        /\ out.doc.Fragments = <<>>
        /\ (src = UserFriendsDocument) =>
               /\ Names(out.doc.Operations[1].Selections) = <<"user">>
               /\ LET user == out.doc.Operations[1].Selections[1]
                  IN  /\ Names(user.Arguments) = <<"id">>
                      /\ LiteralString(user.Arguments[1].Value) = <<"1">>
                      /\ Names(user.Selections) = <<"name", "friends">>
                      /\ user.Selections[1].Selections = <<>>
                      /\ Names(user.Selections[2].Selections) = <<"name">>

C7_Witness ==
    /\ Parsed("document")
    /\ src = UserFriendsDocument
    /\ out.err = Nil
    /\ Names(out.doc.Operations[1].Selections[1].Selections) = <<"name", "friends">>

\* the identifiers that follow the `@` tokens of s, in order
RECURSIVE AtNames(_)
AtNames(s) ==
    IF Len(s) < 2 THEN <<>>
    ELSE IF s[1] = "@" THEN <<s[2]>> \o AtNames(Tail(Tail(s)))
    ELSE AtNames(Tail(s))

\* C8: ParseDirectives returns one directive per consecutive `@name` or
\* `@name(args)` clause, in source order, and stops at the first token that
\* is not `@`; with no `@` ahead it returns the empty list and consumes nothing.
C8_DirectivesInSourceOrder ==
    Parsed("directives") =>
        /\ (src = <<>> \/ src[1] # "@") => (out.ok /\ out.v = <<>> /\ out.l.pos = 1)
        /\ out.ok => (Names(out.v) = AtNames(Consumed) /\ Peek(out.l) # "@")
        /\ (src = <<"@", "a", "@", "b", "(", "x", ":", "1", ")">>) =>
               /\ out.ok
               /\ Names(out.v) = <<"a", "b">>
               /\ out.v[1].Args = <<>>
               /\ Names(out.v[2].Args) = <<"x">>

C8_Witness ==
    /\ Parsed("directives")
    /\ src = <<"@", "a", "@", "b", "(", "x", ":", "1", ")">>
    /\ out.ok
    /\ Len(out.v) = 2

SchemaSyntaxError(s) == ~ParseSchema(Schema(<<>>), NewLexer(s)).ok

\* C9: a syntax error in the schema source comes back from parser.Parse as
\* a non-nil error with no schema.
C9_SchemaSyntaxErrorReturned ==
    (Parsed("schema") /\ SchemaSyntaxError(src)) =>
        /\ out.panic = Nil
        /\ out.err # Nil
        /\ out.schema = Nil

\* C10: query.Parse returns a document and a nil error, or a nil document
\* and the syntax error with its one location; never both, never neither.
C10_DocumentOrError ==
    Parsed("document") =>
        \/ out.doc # Nil /\ out.err = Nil
        \/ /\ out.doc = Nil
           /\ out.err # Nil
           /\ out.err.Message[1] = "syntax error: "
           /\ Len(out.err.Locations) = 1

\* the error comes after a complete operation was parsed
C10_Witness ==
    /\ Parsed("document")
    /\ Len(src) > 3
    /\ SubSeq(src, 1, 3) = <<"{", "f", "}">>
    /\ out.doc = Nil
    /\ out.err # Nil
    /\ out.err.Locations[1] > 3

\* number of selection sets still open after the first p tokens of s
BraceDepth(s, p) ==
    Cardinality({i \in 1..p : s[i] = "{"}) - Cardinality({i \in 1..p : s[i] = "}"})

\* where the top-level items of s begin: at the first token and after each
\* `}` that closes an item
ItemStarts(s) ==
    {p \in 1..Len(s) : BraceDepth(s, p - 1) = 0 /\ (p = 1 \/ s[p - 1] = "}")}

Ascending(S) ==
    [i \in 1..Cardinality(S) |-> CHOOSE x \in S : Cardinality({y \in S : y < x}) = i - 1]

OperationStarts(s) == {p \in ItemStarts(s) : s[p] # "fragment"}

FragmentStarts(s) == {p \in ItemStarts(s) : s[p] = "fragment"}

KindOf(token) ==
    IF token \in {"{", "query"} THEN Query
    ELSE IF token = "mutation" THEN Mutation
    ELSE Subscription

ItemKeywords == {"query", "mutation", "subscription", "fragment"}

\* C18: the i-th operation of the document is the i-th top-level item that
\* does not begin with `fragment`, of the kind its leading token says, and
\* the i-th fragment is the i-th item that does; an item beginning with
\* another identifier ends the parse with: unexpected "<ident>", expecting
\* "fragment"; the empty source gives the empty document.
C18_ItemsClassifiedInOrder ==
    Parsed("document") =>
        /\ (src = <<>>) =>
               (out.err = Nil /\ out.doc.Operations = <<>> /\ out.doc.Fragments = <<>>)
        /\ (out.err = Nil) =>
               /\ \A p \in ItemStarts(src) : src[p] \in ItemKeywords \cup {"{"}
               /\ [i \in DOMAIN out.doc.Operations |-> out.doc.Operations[i].Type] =
                      [i \in 1..Cardinality(OperationStarts(src)) |->
                          KindOf(src[Ascending(OperationStarts(src))[i]])]
               /\ \A i \in DOMAIN out.doc.Operations :
                      /\ src[Ascending(OperationStarts(src))[i]] = "{" =>
                             out.doc.Operations[i].Name.Name = ""
                      /\ src[Ascending(OperationStarts(src))[i]] \in {"{", "query"} =>
                             out.doc.Operations[i].Loc = Ascending(OperationStarts(src))[i]
               /\ [i \in DOMAIN out.doc.Fragments |-> out.doc.Fragments[i].Loc] =
                      Ascending(FragmentStarts(src))
        /\ \A p \in ItemStarts(src) :
               (/\ src[p] \in IdentTokens \ ItemKeywords
                /\ query_Parse(SubSeq(src, 1, p - 1)).err = Nil) =>
                   /\ out.doc = Nil
                   /\ out.err.Message = <<"syntax error: ", "unexpected ", "\"", src[p],
                                          "\"", ", expecting \"fragment\"">>

C18_Witness ==
    /\ Parsed("document")
    /\ src = <<"{", "f", "}", "mutation", "{", "f", "}",
               "fragment", "Frag", "on", "User", "{", "f", "}">>
    /\ out.err = Nil
    /\ Len(out.doc.Operations) = 2
    /\ out.doc.Operations[2].Type = Mutation
    /\ Names(out.doc.Fragments) = <<"Frag">>

\* C15: a field written `name` has Alias = Name; written `alias: name` it
\* has the two identifiers; arguments, directives and a selection set are
\* optional and lie in this order after the name.
C15_FieldAliasAndParts ==
    /\ (Parsed("selection") /\ out.ok /\ out.v.k = "Field") =>
           /\ out.v.Alias = Ident(src[1], 1)
           /\ out.v.Name = (IF Len(src) >= 2 /\ src[2] = ":"
                            THEN Ident(src[3], 3)
                            ELSE out.v.Alias)
           /\ (out.v.Arguments # <<>>) =
                  (Len(src) > out.v.Name.Loc /\ src[out.v.Name.Loc + 1] = "(")
           /\ \A i \in DOMAIN out.v.Arguments :
                  out.v.Arguments[i].Name.Loc > out.v.Name.Loc
           /\ \A j \in DOMAIN out.v.Directives :
                  /\ src[out.v.Directives[j].Name.Loc] = "@"
                  /\ out.v.Directives[j].Name.Loc > out.v.Name.Loc
                  /\ \A i \in DOMAIN out.v.Arguments :
                         out.v.Directives[j].Name.Loc > out.v.Arguments[i].Name.Loc
           /\ (out.v.Selections # <<>>) =>
                  /\ src[out.v.SelectionSetLoc] = "{"
                  /\ out.v.SelectionSetLoc > out.v.Name.Loc
                  /\ \A i \in DOMAIN out.v.Arguments :
                         out.v.SelectionSetLoc > out.v.Arguments[i].Name.Loc
                  /\ \A j \in DOMAIN out.v.Directives :
                         out.v.SelectionSetLoc > out.v.Directives[j].Name.Loc
    /\ (Parsed("selection") /\ src \in {<<"User">>, <<"on", ":", "User">>}) =>
           /\ out.ok
           /\ out.v.Arguments = <<>>
           /\ out.v.Directives = <<>>
           /\ out.v.Selections = <<>>

C15_Witness ==
    /\ Parsed("selection")
    /\ src = <<"a", ":", "User", "(", "id", ":", "1", ")", "@", "d",
               "{", "name", "}">>
    /\ out.ok
    /\ out.v.Alias.Name = "a"
    /\ out.v.Name.Name = "User"
    /\ Names(out.v.Arguments) = <<"id">>
    /\ Names(out.v.Directives) = <<"d">>
    /\ Names(out.v.Selections) = <<"name">>

-----------------------------------------------------------------------------
(* Lookups by name *)

RECURSIVE OperationList_Get(_, _)

\* the loop returning the last operation of that name
OperationList_Get_last(l, name) ==
    IF l = <<>> THEN Nil
    ELSE IF l[Len(l)].Name.Name = name THEN l[Len(l)]
    ELSE OperationList_Get(SubSeq(l, 1, Len(l) - 1), name)

OperationList_Get(l, name) ==
    IF l = <<>> THEN Nil
    ELSE IF Head(l).Name.Name = name THEN Head(l)
    ELSE OperationList_Get(Tail(l), name)

RECURSIVE FragmentList_Get(_, _)
FragmentList_Get(l, name) ==
    IF l = <<>> THEN Nil
    ELSE IF Head(l).Name.Name = name THEN Head(l)
    ELSE FragmentList_Get(Tail(l), name)

\* the fields of a declared object carry their name as a plain string here
RECURSIVE FieldDefinition_Get(_, _)
FieldDefinition_Get(l, name) ==
    IF l = <<>> THEN Nil
    ELSE IF Head(l).Name = name THEN Head(l)
    ELSE FieldDefinition_Get(Tail(l), name)

RECURSIVE ArgumentsDefinition_Get(_, _)
ArgumentsDefinition_Get(a, name) ==
    IF a = <<>> THEN Nil
    ELSE IF Head(a).Name.Name = name THEN Head(a)
    ELSE ArgumentsDefinition_Get(Tail(a), name)

RECURSIVE DirectiveList_Get(_, _)
DirectiveList_Get(l, name) ==
    IF l = <<>> THEN Nil
    ELSE IF Head(l).Name.Name = name THEN Head(l)
    ELSE DirectiveList_Get(Tail(l), name)

\* (Literal, bool)
RECURSIVE ArgumentList_Get(_, _)
ArgumentList_Get(l, name) ==
    IF l = <<>> THEN [value |-> Nil, ok |-> FALSE]
    ELSE IF Head(l).Name.Name = name THEN [value |-> Head(l).Value, ok |-> TRUE]
    ELSE ArgumentList_Get(Tail(l), name)

ArgumentList_MustGet(l, name) ==
    IF ~ArgumentList_Get(l, name).ok
    THEN Panics("argument not found")
    ELSE Returns(ArgumentList_Get(l, name).value)

LookupNames == {"", "Q", "Frag", "x", "a", "f", "d"}

ApplyParseArguments ==
    /\ mode = "arguments"
    /\ pc = "start"
    /\ out' = ParseArguments(NewLexer(src))
    /\ pc' = "parsed"
    /\ UNCHANGED <<mode, src, pieces, table, origin, input, todo, stack, ret, calls, text>>

\* a caller looks `name` up in list `l` of the parse result; `method` names
\* the lookup and `got` is what it returned
Found(method, l, name, got) ==
    /\ ret' = [method |-> method, list |-> l, name |-> name, got |-> got]
    /\ pc' = "found"
    /\ UNCHANGED <<mode, src, pieces, table, origin, input, todo, stack, calls, text, out>>

GetOperation(name) ==
    /\ Parsed("document")
    /\ out.err = Nil
    /\ Found("OperationList.Get", out.doc.Operations, name,
             OperationList_Get(out.doc.Operations, name))

GetFragment(name) ==
    /\ Parsed("document")
    /\ out.err = Nil
    /\ Found("FragmentList.Get", out.doc.Fragments, name,
             FragmentList_Get(out.doc.Fragments, name))

GetFieldOf(type, name) ==
    /\ Parsed("schema")
    /\ out.panic = Nil
    /\ type \in DOMAIN out.schema.Types
    /\ Found("FieldDefinition.Get", out.schema.Types[type].Fields, name,
             FieldDefinition_Get(out.schema.Types[type].Fields, name))

GetVariable(name) ==
    /\ Parsed("operation")
    /\ out.ok
    /\ Found("ArgumentsDefinition.Get", out.v.Vars, name,
             ArgumentsDefinition_Get(out.v.Vars, name))

GetDirective(name) ==
    /\ Parsed("directives")
    /\ out.ok
    /\ Found("DirectiveList.Get", out.v, name, DirectiveList_Get(out.v, name))

GetArgument(name) ==
    /\ Parsed("arguments")
    /\ out.ok
    /\ Found("ArgumentList.Get", out.v, name, ArgumentList_Get(out.v, name))

MustGetArgument(name) ==
    /\ Parsed("arguments")
    /\ out.ok
    /\ Found("ArgumentList.MustGet", out.v, name, ArgumentList_MustGet(out.v, name))

InitLookup ==
    /\ mode \in {"document", "schema", "operation", "directives", "arguments"}
    /\ src = <<>>
    /\ pieces = 0
    /\ table = <<>>
    /\ pc = "start"
    /\ origin = <<>>
    /\ input = Nil
    /\ todo = Nil
    /\ stack = <<>>
    /\ ret = Nil
    /\ calls = 0
    /\ text = PanicText
    /\ out = Nil

NextLookup ==
    \/ \E c \in ChunksOf(mode) : WriteSource(c)
    \/ ParseQuery
    \/ ParseSchemaSource
    \/ ApplyParseOperation
    \/ ApplyParseDirectives
    \/ ApplyParseArguments
    \/ \E name \in LookupNames : GetOperation(name)
    \/ \E name \in LookupNames : GetFragment(name)
    \/ \E name \in LookupNames : GetFieldOf("B", name)
    \/ \E name \in LookupNames : GetVariable(name)
    \/ \E name \in LookupNames : GetDirective(name)
    \/ \E name \in LookupNames : GetArgument(name)
    \/ \E name \in LookupNames : MustGetArgument(name)

SpecLookup == InitLookup /\ [][NextLookup]_vars

\* the name of element e of a list looked up with `method`
NameOf(method, e) ==
    IF method = "FieldDefinition.Get" THEN e.Name ELSE e.Name.Name

\* what the caller got, as an element of the list (nil for not found)
Got ==
    IF ret.method = "ArgumentList.Get"
    THEN IF ret.got.ok THEN ret.got.value ELSE Nil
    ELSE ret.got

\* the element a lookup of ret.name has to give
Element(i) ==
    IF ret.method = "ArgumentList.Get" THEN ret.list[i].Value ELSE ret.list[i]

\* the list a finished lookup went through, as it is now
ListNow ==
    IF ret.method = "OperationList.Get" THEN out.doc.Operations
    ELSE IF ret.method = "FragmentList.Get" THEN out.doc.Fragments
    ELSE IF ret.method = "FieldDefinition.Get" THEN out.schema.Types["B"].Fields
    ELSE IF ret.method = "ArgumentsDefinition.Get" THEN out.v.Vars
    ELSE out.v

\* C16: looking an argument up by name never panics; a name that is not in
\* the list is reported as not found.
C16_ArgumentLookupNeverPanics ==
    (pc = "found" /\ ret.method = "ArgumentList.MustGet") => ~ret.got.panic

\* C17: a Get returns the first element of the list with the requested name,
\* returns nil (not found) exactly when no element has that name, and leaves
\* the list as it was.
C17_GetReturnsFirstMatch ==
    (pc = "found" /\ ret.method # "ArgumentList.MustGet") =>
        /\ ListNow = ret.list
        /\ (\A i \in DOMAIN ret.list : NameOf(ret.method, ret.list[i]) # ret.name) =>
               /\ Got = Nil
               /\ (ret.method = "ArgumentList.Get" => ~ret.got.ok)
        /\ \A i \in DOMAIN ret.list :
               (/\ NameOf(ret.method, ret.list[i]) = ret.name
                /\ \A j \in 1..(i - 1) : NameOf(ret.method, ret.list[j]) # ret.name) =>
                   /\ Got = Element(i)
                   /\ (ret.method = "ArgumentList.Get" => ret.got.ok)

\* two anonymous operations: Get("") gives the first
C17_Witness ==
    /\ pc = "found"
    /\ ret.method = "OperationList.Get"
    /\ src = <<"{", "f", "}", "query", "{", "f", "}">>
    /\ ret.name = ""
    /\ Names(ret.list) = <<"", "">>
    /\ ret.got = ret.list[1]
    /\ ret.got.Loc = 1
    /\ ret.list[2].Loc = 4

-----------------------------------------------------------------------------
(* Meta fields of the introspection schema (package resolvable).  The      *)
(* builder (newBuilder, makeObjectExec, finish) is not part of the sources *)
(* at hand: each of its calls returns an error or not.                     *)

\* s.Types[name]: the declared type stored under name, nil if there is none
TypesIndex(types, name) == IF name \in DOMAIN types THEN Declared(name) ELSE Nil

\* resolvable.Field built by newMeta: the embedded types.Field has a name
\* and a type; every other member keeps its zero value
MetaField(name, type, traceLabel) ==
    [Field |-> [Name |-> Ident(name, 0), Type |-> type, Arguments |-> <<>>],
     TraceLabel |-> traceLabel]

\* what makeObjectExec returns when it succeeds
ObjectExec(name) == [Name |-> name]

Meta(fieldSchema, fieldType, fieldTypename, so, t) ==
    [FieldSchema |-> fieldSchema, FieldType |-> fieldType,
     FieldTypename |-> fieldTypename, Schema |-> so, Type |-> t]

MetaPanic(err) == [meta |-> Nil, panic |-> err]

\* x.(*types.Object) succeeds
IsObject(types, name) == name \in DOMAIN types /\ types[name].Kind = "OBJECT"

\* newMeta that keeps going when b.finish() reports an error
newMeta_ignoreFinish(types, schemaErr, typeErr, finishErr) ==
    IF ~IsObject(types, "__Schema") THEN MetaPanic([Message |-> "interface conversion"])
    ELSE IF schemaErr # Nil THEN MetaPanic(schemaErr)
    ELSE IF ~IsObject(types, "__Type") THEN MetaPanic([Message |-> "interface conversion"])
    ELSE IF typeErr # Nil THEN MetaPanic(typeErr)
    ELSE [meta |->
              Meta(MetaField("__schema", TypesIndex(types, "__Schema"),
                             "GraphQL field: __schema"),
                   MetaField("__type", TypesIndex(types, "__Type"),
                             "GraphQL field: __type"),
                   MetaField("__typename", NonNull(TypesIndex(types, "String")),
                             "GraphQL field: __typename"),
                   ObjectExec(types["__Schema"].Name),
                   ObjectExec(types["__Type"].Name)),
          panic |-> Nil]

newMeta(types, schemaErr, typeErr, finishErr) ==
    IF ~IsObject(types, "__Schema") THEN MetaPanic([Message |-> "interface conversion"])
    ELSE IF schemaErr # Nil THEN MetaPanic(schemaErr)
    ELSE IF ~IsObject(types, "__Type") THEN MetaPanic([Message |-> "interface conversion"])
    ELSE IF typeErr # Nil THEN MetaPanic(typeErr)
    ELSE IF finishErr # Nil THEN MetaPanic(finishErr)
    ELSE [meta |->
              Meta(MetaField("__schema", TypesIndex(types, "__Schema"),
                             "GraphQL field: __schema"),
                   MetaField("__type", TypesIndex(types, "__Type"),
                             "GraphQL field: __type"),
                   MetaField("__typename", NonNull(TypesIndex(types, "String")),
                             "GraphQL field: __typename"),
                   ObjectExec(types["__Schema"].Name),
                   ObjectExec(types["__Type"].Name)),
          panic |-> Nil]

\* the schema with the introspection types merged in
MetaTypes ==
    ("String" :> Scalar("String"))
    @@ ("__Schema" :> Object("__Schema", <<Field("types", List(Declared("__Type")))>>))
    @@ ("__Type" :> Object("__Type", <<Field("name", Declared("String"))>>))

\* ... and schemas where an introspection type is missing or is no object
MetaSchemas ==
    {MetaTypes,
     [n \in {"String", "__Schema"} |-> MetaTypes[n]],
     [MetaTypes EXCEPT !["__Schema"] = Scalar("__Schema")]}

ApplyNewMeta(schemaErr, typeErr, finishErr) ==
    /\ mode = "meta"
    /\ pc = "start"
    /\ ret' = [schemaErr |-> schemaErr, typeErr |-> typeErr, finishErr |-> finishErr]
    /\ out' = newMeta(table, schemaErr, typeErr, finishErr)
    /\ pc' = "parsed"
    /\ UNCHANGED <<mode, src, pieces, table, origin, input, todo, stack, calls, text>>

-----------------------------------------------------------------------------
(* Input values and literal values *)

ApplyParseInputValue ==
    /\ mode = "inputvalue"
    /\ pc = "start"
    /\ out' = ParseInputValue(NewLexer(src))
    /\ pc' = "parsed"
    /\ UNCHANGED <<mode, src, pieces, table, origin, input, todo, stack, ret, calls, text>>

ApplyParseLiteral ==
    /\ mode = "literal"
    /\ pc = "start"
    /\ out' = ParseLiteral(NewLexer(src), FALSE)
    /\ pc' = "parsed"
    /\ UNCHANGED <<mode, src, pieces, table, origin, input, todo, stack, ret, calls, text>>

\* the variable bindings a request may come with
\* the execution engine asks the parsed literal for its value
Materialize(bindings) ==
    /\ mode = "literal"
    /\ pc = "parsed"
    /\ out.ok
    /\ ret' = [vars |-> bindings, value |-> Value(out.v, bindings)]
    /\ pc' = "valued"
    /\ UNCHANGED <<mode, src, pieces, table, origin, input, todo, stack, calls, text, out>>

InitValue ==
    /\ mode \in {"inputvalue", "literal", "meta"}
    /\ src = <<>>
    /\ pieces = 0
    /\ table \in IF mode = "meta" THEN MetaSchemas ELSE {<<>>}
    /\ pc = "start"
    /\ origin = <<>>
    /\ input = Nil
    /\ todo = Nil
    /\ stack = <<>>
    /\ ret = Nil
    /\ calls = 0
    /\ text = PanicText
    /\ out = Nil

NextValue ==
    \/ \E c \in ChunksOf(mode) : mode # "meta" /\ WriteSource(c)
    \/ \E schemaErr, typeErr, finishErr \in {Nil, [Message |-> "bad resolver"]} :
           ApplyNewMeta(schemaErr, typeErr, finishErr)
    \/ ApplyParseInputValue
    \/ ApplyParseLiteral
    \/ \E bindings \in {"a" :> "one", "b" :> "one", "b" :> "two"} : Materialize(bindings)

SpecValue == InitValue /\ [][NextValue]_vars

RECURSIVE HasVariable(_)
HasVariable(lit) ==
    IF lit.k = "Variable" THEN TRUE
    ELSE IF lit.k = "ListLit"
    THEN \E i \in DOMAIN lit.Entries : HasVariable(lit.Entries[i])
    ELSE IF lit.k = "ObjectLit"
    THEN \E i \in DOMAIN lit.Fields : HasVariable(lit.Fields[i].Value)
    ELSE FALSE

\* C11: an input-value definition is not inside an operation's selection,
\* so every literal in it is parsed in constant mode: neither its default
\* value nor an argument of a directive attached to it holds a variable.
C11_ConstantModeInDefinitions ==
    (Parsed("inputvalue") /\ out.ok) =>
        /\ ~HasVariable(out.v.Default)
        /\ \A i \in DOMAIN out.v.Directives :
               \A j \in DOMAIN out.v.Directives[i].Args :
                   ~HasVariable(out.v.Directives[i].Args[j].Value)

\* C12: Value(vars) never panics; a scalar gives a value, a list gives a
\* list of the same length, null gives nil and a variable gives vars[name].
C12_ValueOfEveryLiteral ==
    pc = "valued" =>
        /\ ~ret.value.panic
        /\ (out.v.k = "BasicLit" => ret.value.v # Nil)
        /\ (out.v.k = "ListLit" => Len(ret.value.v) = Len(out.v.Entries))
        /\ (out.v.k = "ObjectLit" =>
                DOMAIN ret.value.v =
                    {out.v.Fields[i].Name.Name : i \in DOMAIN out.v.Fields})
        /\ (out.v.k = "NullLit" => ret.value.v = Nil)
        /\ (out.v.k = "Variable" => ret.value.v = MapIndex(ret.vars, out.v.Name))

MetaFields(m) == {m.FieldTypename, m.FieldSchema, m.FieldType}

=============================================================================
